---- MODULE Spec2Model ----
(***************************************************************************)
(* Folder-watching document indexer (src/indexer): a persistent vector     *)
(* store is kept in step with a watched folder by an initial scan and by   *)
(* the create / modify / delete handlers of FileWatchHandler.              *)
(*                                                                         *)
(* Strings whose characters the code inspects (paths, extensions, ids)     *)
(* are sequences of one-character strings.  A file's content is the        *)
(* ordered list of units its parser returns, each unit being the ordered   *)
(* list of pieces the text splitter cuts it into.                          *)
(***************************************************************************)
EXTENDS Integers, Sequences, FiniteSets, TLC

(* ------------------------------ bounds -------------------------------- *)

\* number of changes the environment makes to the watched folder
MaxFsOps == 3

\* number of times the indexer process is started
MaxRuns == 2

\* length of the texts handed to the chunker
MaxText == 4

\* largest chunk_size a chunker is constructed with
MaxChunk == 3

\* the records of the collection the agent is served from, at most
MaxHits == 2

\* the answers of the model in one run of the agent graph, at most
MaxTurns == 2

\* main(): get_chunker(chunk_size=1000, chunk_overlap=200)
DefaultChunkSize == 1000

DefaultChunkOverlap == 200

(* ------------------------- string primitives -------------------------- *)

UpperChars == <<"A","B","C","D","E","F","G","H","I","J","K","L","M",
                "N","O","P","Q","R","S","T","U","V","W","X","Y","Z">>

LowerChars == <<"a","b","c","d","e","f","g","h","i","j","k","l","m",
                "n","o","p","q","r","s","t","u","v","w","x","y","z">>

\* the lower-case letter of each upper-case letter
LowerOf == [c \in {UpperChars[i] : i \in 1..26} |->
               LowerChars[CHOOSE i \in 1..26 : UpperChars[i] = c]]

\* str.lower() on one character
LowerChar(c) == IF c \in DOMAIN LowerOf THEN LowerOf[c] ELSE c

\* str.lower()
Lower(s) == [i \in 1..Len(s) |-> LowerChar(s[i])]

\* str.rfind(c), 1-based; 0 when c does not occur
RFind(s, c) ==
    LET at == {i \in 1..Len(s) : s[i] = c}
    IN  IF at = {} THEN 0 ELSE CHOOSE i \in at : \A j \in at : j <= i

\* s.split('.')[-1]: what follows the last dot, the whole string without one
SplitLast(s) == SubSeq(s, RFind(s, ".") + 1, Len(s))

\* os.path.basename
basename(file_path) == SubSeq(file_path, RFind(file_path, "/") + 1, Len(file_path))

\* str.startswith(".")
StartsWithDot(s) == Len(s) > 0 /\ s[1] = "."

\* pathlib.Path.suffix: the last dot of the name and what follows it, unless
\* that dot opens or closes the name
suffix(file_path) ==
    LET name == basename(file_path)
        i == RFind(name, ".")
    IN  IF 1 < i /\ i < Len(name) THEN SubSeq(name, i, Len(name)) ELSE <<>>

Digits == <<"0","1","2","3","4","5","6","7","8","9">>

\* str(n) for a natural number
RECURSIVE Str(_)
Str(n) == IF n < 10 THEN <<Digits[n + 1]>> ELSE Str(n \div 10) \o <<Digits[(n % 10) + 1]>>

(* ---- RecursiveCharacterTextSplitter, as FileChunker constructs it ----- *)

Whitespace == {" ", "\n", "\t", "\r"}

\* variant: a strip that leaves the string as it is
Strip_none(s) == s

\* str.strip()
Strip(s) ==
    IF \A i \in 1..Len(s) : s[i] \in Whitespace THEN <<>>
    ELSE LET a == CHOOSE i \in 1..Len(s) :
                    s[i] \notin Whitespace /\ \A j \in 1..(i - 1) : s[j] \in Whitespace
             b == CHOOSE i \in 1..Len(s) :
                    s[i] \notin Whitespace /\ \A j \in (i + 1)..Len(s) : s[j] \in Whitespace
         IN  SubSeq(s, a, b)

\* separators=None: the splitter's default list, the last being ""
Separators == << <<"\n","\n">>, <<"\n">>, <<" ">>, <<>> >>

\* text[i:].startswith(separator)
StartsAt(text, separator, i) ==
    /\ i + Len(separator) - 1 <= Len(text)
    /\ \A k \in 1..Len(separator) : text[i + k - 1] = separator[k]

\* re.search(separator, text)
Found(text, separator) == \E i \in 1..Len(text) : StartsAt(text, separator, i)

\* where the matches of re.split start: left to right and not overlapping,
\* so every len(separator)-th place of a run of the separator's character
MatchStarts(text, separator) ==
    {i \in 1..Len(text) :
        /\ StartsAt(text, separator, i)
        /\ LET r == CHOOSE j \in 0..(i - 1) :
                        /\ (j = 0 \/ text[j] # separator[1])
                        /\ \A k \in (j + 1)..(i - 1) : text[k] = separator[1]
           IN  (i - (r + 1)) % Len(separator) = 0}

\* _split_text_with_regex with keep_separator=True: list(text) for "", else
\* the text cut before every match, the empty pieces dropped
_split_text_with_regex(text, separator) ==
    IF separator = <<>> THEN [i \in 1..Len(text) |-> <<text[i]>>]
    ELSE LET starts == {1} \cup MatchStarts(text, separator)
             n == Cardinality(starts)
             at == [k \in 1..n |->
                      CHOOSE a \in starts : Cardinality({b \in starts : b < a}) = k - 1]
             piece(k) == SubSeq(text, at[k], IF k = n THEN Len(text) ELSE at[k + 1] - 1)
         IN  SelectSeq([k \in 1..n |-> piece(k)], LAMBDA x : x # <<>>)

\* "".join(docs[lo..hi])
RECURSIVE Concat(_, _, _)
Concat(docs, lo, hi) ==
    IF lo > hi THEN <<>>
    ELSE IF lo = hi THEN docs[lo]
    ELSE Concat(docs, lo, (lo + hi) \div 2) \o Concat(docs, (lo + hi) \div 2 + 1, hi)

\* _join_docs with the separator "" that keep_separator=True leaves, and
\* strip_whitespace=True; <<>> stands for None
_join_docs(docs) == Strip(Concat(docs, 1, Len(docs)))

\* variant: a loop that keeps nothing of the chunk it has emitted
PopStep_no_overlap(m, len, chunk_size, chunk_overlap) ==
    IF m.total > 0
    THEN [m EXCEPT !.total = @ - Len(m.current_doc[1]),
                   !.current_doc = Tail(@)]
    ELSE m

\* one turn of the while loop of _merge_splits, when its condition holds
PopStep(m, len, chunk_size, chunk_overlap) ==
    IF \/ m.total > chunk_overlap
       \/ (m.total + len > chunk_size /\ m.total > 0)
    THEN [m EXCEPT !.total = @ - Len(m.current_doc[1]),
                   !.current_doc = Tail(@)]
    ELSE m

\* the while loop of _merge_splits: at most n turns, over once a turn
\* changes nothing
RECURSIVE PopLoop(_, _, _, _, _)
PopLoop(m, n, len, chunk_size, chunk_overlap) ==
    IF n = 0 THEN m
    ELSE IF n = 1 THEN PopStep(m, len, chunk_size, chunk_overlap)
    ELSE LET half == PopLoop(m, n \div 2, len, chunk_size, chunk_overlap)
         IN  IF half = m THEN m
             ELSE PopLoop(half, n - n \div 2, len, chunk_size, chunk_overlap)

\* the body of the for loop of _merge_splits for the split d
MergeStep(m, d, chunk_size, chunk_overlap) ==
    LET len == Len(d)
        flushed ==
            IF m.total + len > chunk_size /\ Len(m.current_doc) > 0
            THEN LET doc == _join_docs(m.current_doc)
                     kept == PopLoop(m, Len(m.current_doc), len,
                                     chunk_size, chunk_overlap)
                 IN  [kept EXCEPT !.docs = IF doc = <<>> THEN @ ELSE Append(@, doc)]
            ELSE m
    IN  [flushed EXCEPT !.current_doc = Append(@, d), !.total = @ + len]

\* the for loop of _merge_splits over splits[lo..hi], the turns up to the
\* middle first (total is never negative)
RECURSIVE MergeRun(_, _, _, _, _, _)
MergeRun(m, splits, lo, hi, chunk_size, chunk_overlap) ==
    IF lo > hi THEN m
    ELSE IF lo = hi THEN MergeStep(m, splits[lo], chunk_size, chunk_overlap)
    ELSE LET half == MergeRun(m, splits, lo, (lo + hi) \div 2,
                              chunk_size, chunk_overlap)
         IN  IF half.total < 0 THEN half
             ELSE MergeRun(half, splits, (lo + hi) \div 2 + 1, hi,
                           chunk_size, chunk_overlap)

\* variant: a merge that forgets the chunk under construction at the end
_merge_splits_no_tail(splits, chunk_size, chunk_overlap) ==
    MergeRun([docs |-> <<>>, current_doc |-> <<>>, total |-> 0],
             splits, 1, Len(splits), chunk_size, chunk_overlap).docs

\* _merge_splits: splits are gathered into chunks of at most chunk_size; a
\* new chunk starts with the tail of its predecessor, at most chunk_overlap
_merge_splits(splits, chunk_size, chunk_overlap) ==
    LET m == MergeRun([docs |-> <<>>, current_doc |-> <<>>, total |-> 0],
                      splits, 1, Len(splits), chunk_size, chunk_overlap)
        doc == _join_docs(m.current_doc)
    IN  IF doc = <<>> THEN m.docs ELSE Append(m.docs, doc)

RECURSIVE _split_text(_, _, _, _)

\* the body of the for loop of _split_text for the split s
SplitStep(st, s, new_separators, chunk_size, chunk_overlap) ==
    IF Len(s) < chunk_size
    THEN [st EXCEPT !.good_splits = Append(@, s)]
    ELSE LET merged == IF st.good_splits # <<>>
                       THEN _merge_splits(st.good_splits, chunk_size, chunk_overlap)
                       ELSE <<>>
             other == IF new_separators = <<>> THEN <<s>>
                      ELSE _split_text(s, new_separators, chunk_size, chunk_overlap)
         IN  [final_chunks |-> st.final_chunks \o merged \o other,
              good_splits |-> <<>>]

\* the for loop of _split_text over splits[lo..hi], the turns up to the
\* middle first (final_chunks never shrinks)
RECURSIVE SplitRun(_, _, _, _, _, _, _)
SplitRun(st, splits, lo, hi, new_separators, chunk_size, chunk_overlap) ==
    IF lo > hi THEN st
    ELSE IF lo = hi
    THEN SplitStep(st, splits[lo], new_separators, chunk_size, chunk_overlap)
    ELSE LET half == SplitRun(st, splits, lo, (lo + hi) \div 2, new_separators,
                              chunk_size, chunk_overlap)
         IN  IF Len(half.final_chunks) < Len(st.final_chunks) THEN half
             ELSE SplitRun(half, splits, (lo + hi) \div 2 + 1, hi, new_separators,
                           chunk_size, chunk_overlap)

\* _split_text: cut at the first separator of the list the text holds, merge
\* the pieces shorter than chunk_size, cut the others with the separators left
_split_text(text, separators, chunk_size, chunk_overlap) ==
    LET found == {i \in 1..Len(separators) :
                    separators[i] = <<>> \/ Found(text, separators[i])}
        i == IF found = {} THEN Len(separators)
             ELSE CHOOSE x \in found : \A y \in found : x <= y
        separator == separators[i]
        new_separators == IF found = {} \/ separator = <<>> THEN <<>>
                          ELSE SubSeq(separators, i + 1, Len(separators))
        splits == _split_text_with_regex(text, separator)
        st == SplitRun([final_chunks |-> <<>>, good_splits |-> <<>>], splits,
                       1, Len(splits), new_separators, chunk_size, chunk_overlap)
    IN  st.final_chunks \o
            (IF st.good_splits # <<>>
             THEN _merge_splits(st.good_splits, chunk_size, chunk_overlap)
             ELSE <<>>)

\* text_splitter.split_text
split_text(text, chunk_size, chunk_overlap) ==
    _split_text(text, Separators, chunk_size, chunk_overlap)

\* _chunk_document: no chunk for a content that is empty or whitespace-only,
\* else the chunk texts of the splitter
chunk_texts(content, chunk_size, chunk_overlap) ==
    IF Strip(content) = <<>> THEN <<>>
    ELSE split_text(content, chunk_size, chunk_overlap)

(* ------------------------------- paths -------------------------------- *)

FileA    == <<"/","d","/","a",".","t","x","t">>
FileB    == <<"/","d","/","B",".","T","X","T">>
FileDoc  == <<"/","d","/","c",".","d","o","c">>
FileGif  == <<"/","d","/","e",".","g","i","f">>
FileMd   == <<"/","d","/","n",".","m","d">>
FileHid  == <<"/","d","/",".","h",".","t","x","t">>

\* the files that may appear in the watched folder /d
Paths == {FileA, FileB, FileDoc, FileGif, FileMd, FileHid}

\* a subfolder of /d whose name ends in a supported extension, and a file in it
SubDir  == <<"/","d","/","s",".","t","x","t">>
SubFile == <<"/","d","/","s",".","t","x","t","/","a",".","t","x","t">>

\* files handed to the chunker on their own
FileTxt == <<"/","d","/","f","i","l","e",".","t","x","t">>
FileCsv == <<"/","d","/","p",".","c","s","v">>

\* os.listdir(source_folder): the names directly in the watched folder
Entries == Paths \cup {SubDir}

\* every path of the folder tree
Tree == Entries \cup {SubFile}

\* hashlib.md5(file_path.encode()).hexdigest()[:8] of the paths above
Md5Hex8(file_path) ==
    CASE file_path = FileA   -> <<"a","9","0","1","4","5","0","a">>
      [] file_path = FileB   -> <<"7","0","c","9","f","0","4","0">>
      [] file_path = FileDoc -> <<"e","d","6","2","3","f","c","7">>
      [] file_path = FileGif -> <<"e","5","e","2","3","f","d","c">>
      [] file_path = FileMd  -> <<"d","2","0","c","4","b","7","3">>
      [] file_path = FileHid -> <<"5","9","0","d","e","f","a","6">>
      [] file_path = SubDir  -> <<"2","2","5","9","6","b","1","7">>
      [] file_path = SubFile -> <<"7","2","c","9","a","3","1","8">>
      [] file_path = FileTxt -> <<"a","2","5","8","8","c","8","d">>
      [] file_path = FileCsv -> <<"a","2","5","a","2","2","d","1">>

(* ------------------------------ contents ------------------------------ *)

Absent == [exists |-> FALSE]

\* a stored file: parses |-> FALSE is a file its parser raises on
File(parses, units) == [exists |-> TRUE, parses |-> parses, units |-> units]

\* one unit that splits into two overlapping pieces
V1 == File(TRUE, << << <<"p","q">>, <<"q","r">> >> >>)

\* one unit that fits one piece
V2 == File(TRUE, << << <<"s">> >> >>)

\* a malformed file
Bad == File(FALSE, <<>>)

\* a directory: it exists, and open() on it raises
Dir == File(FALSE, <<>>)

\* one unit of whitespace only: the pieces are those the chunker cuts
Blank == File(TRUE, << chunk_texts(<<" ", "\n", " ">>, DefaultChunkSize,
                                   DefaultChunkOverlap) >>)

Contents == {V1, V2, Bad, Blank}

\* what the environment writes to each path
Written(p) == IF p = FileA THEN Contents ELSE {V1}

(* ------------------------ indexer.py: helpers ------------------------- *)

SUPPORTED_EXTENSIONS ==
    { <<"t","x","t">>, <<"p","d","f">>, <<"d","o","c","x">>, <<"j","p","g">>,
      <<"j","p","e","g">>, <<"p","n","g">>, <<"b","m","p">>, <<"t","i","f","f">>,
      <<"c","s","v">> }

is_supported_file(file_path) ==
    /\ SplitLast(Lower(file_path)) \in SUPPORTED_EXTENSIONS
    /\ ~ StartsWithDot(basename(file_path))

\* variant: an id that ignores the ordinal
generate_doc_id_no_ordinal(file_path, index) ==
    basename(file_path) \o <<"_">> \o Md5Hex8(file_path) \o <<"_">> \o Str(0)

\* variant: an id whose ordinal counts from one
generate_doc_id_one_based(file_path, index) ==
    basename(file_path) \o <<"_">> \o Md5Hex8(file_path) \o <<"_">> \o Str(index + 1)

generate_doc_id(file_path, index) ==
    basename(file_path) \o <<"_">> \o Md5Hex8(file_path) \o <<"_">> \o Str(index)

(* ----------------------------- chunker.py ----------------------------- *)

\* PARSER_MAP: extension (with its dot) -> the 'type' its parser writes
PARSER_MAP ==
    { << <<".","t","x","t">>,     "text" >>,
      << <<".","p","d","f">>,     "pdf" >>,
      << <<".","d","o","c","x">>, "docx" >>,
      << <<".","d","o","c">>,     "docx" >>,
      << <<".","j","p","g">>,     "image_ocr" >>,
      << <<".","j","p","e","g">>, "image_ocr" >>,
      << <<".","p","n","g">>,     "image_ocr" >>,
      << <<".","g","i","f">>,     "image_ocr" >>,
      << <<".","b","m","p">>,     "image_ocr" >>,
      << <<".","t","i","f","f">>, "image_ocr" >>,
      << <<".","c","s","v">>,     "csv" >> }

_get_file_extension(file_path) == Lower(suffix(file_path))

\* the parser of a file, named by the type it writes; "none" without one
_get_parser(file_path) ==
    LET ext == _get_file_extension(file_path)
    IN  IF \E e \in PARSER_MAP : e[1] = ext
        THEN (CHOOSE e \in PARSER_MAP : e[1] = ext)[2]
        ELSE "none"

\* every path of the model
KnownPaths == Tree \cup {FileTxt, FileCsv}

\* is_supported_file, _get_parser and os.path.basename of the paths of the
\* model, each computed once
supported_file == [p \in KnownPaths |-> is_supported_file(p)]

parser_of == [p \in KnownPaths |-> _get_parser(p)]

name_of == [p \in KnownPaths |-> basename(p)]

\* ImageOCRParser.__init__: ValueError when GEMINI_API is not set
ImageOCRParser_init(api_key) == [raised |-> ~ api_key]

\* variant: parsers whose constructor raises are left out
_initialize_parsers_lenient(api_key) == [raised |-> FALSE]

\* _initialize_parsers: one instance per entry of PARSER_MAP; only an
\* ImportError is caught, a ValueError leaves the constructor
_initialize_parsers(api_key) ==
    [raised |-> \E e \in PARSER_MAP :
                   e[2] = "image_ocr" /\ ImageOCRParser_init(api_key).raised]

\* get_chunker: FileChunker(...), whose constructor runs _initialize_parsers
get_chunker(api_key) == _initialize_parsers(api_key)

\* variant: a parser that answers a malformed file with a placeholder unit
parse_lenient(file, type) ==
    IF ~ file.exists
    THEN [raised |-> TRUE, documents |-> <<>>]
    ELSE [raised |-> FALSE,
          documents |-> IF file.parses
                        THEN [i \in 1..Len(file.units) |->
                                [content |-> file.units[i], type |-> type, unit |-> i]]
                        ELSE << [content |-> << <<"?">> >>, type |-> type, unit |-> 1] >>]

\* parser.parse: one document per unit, or an exception
parse(file, type) ==
    IF ~ file.exists \/ ~ file.parses
    THEN [raised |-> TRUE, documents |-> <<>>]
    ELSE [raised |-> FALSE,
          documents |-> [i \in 1..Len(file.units) |->
                            [content |-> file.units[i], type |-> type, unit |-> i]]]

\* a unit with no piece is empty or whitespace-only: no chunk
_chunk_document(doc, file_path) ==
    [i \in 1..Len(doc.content) |->
        [content  |-> doc.content[i],
         metadata |-> [chunk_size |-> Len(doc.content[i]),
                       filename   |-> name_of[file_path],
                       type       |-> doc.type]]]

RECURSIVE Extend(_, _, _)
Extend(documents, file_path, i) ==
    IF i > Len(documents) THEN <<>>
    ELSE _chunk_document(documents[i], file_path) \o Extend(documents, file_path, i + 1)

parse_file(dk, file_path) ==
    IF ~ dk[file_path].exists THEN <<>>
    ELSE IF parser_of[file_path] = "none" THEN <<>>
    ELSE LET r == parse(dk[file_path], parser_of[file_path])
         IN  IF r.raised THEN <<>> ELSE Extend(r.documents, file_path, 1)

(* ------------------- parser.py and chunker.py on text ----------------- *)

\* str.split(c): the pieces between the occurrences of the character c
SplitOn(s, c) ==
    LET cuts == {0} \cup {i \in 1..Len(s) : s[i] = c} \cup {Len(s) + 1}
        n == Cardinality(cuts) - 1
        at == [k \in 1..(n + 1) |->
                 CHOOSE a \in cuts : Cardinality({b \in cuts : b < a}) = k - 1]
    IN  [k \in 1..n |-> SubSeq(s, at[k] + 1, at[k + 1] - 1)]

\* sep.join(parts)
RECURSIVE Join(_, _)
Join(parts, sep) ==
    IF parts = <<>> THEN <<>>
    ELSE IF Len(parts) = 1 THEN parts[1]
    ELSE parts[1] \o sep \o Join(Tail(parts), sep)

\* TextParser.parse: the whole text is one unit
TextParser_parse(raw, source) ==
    << [content  |-> raw,
        metadata |-> [source |-> source, type |-> "text",
                      filename |-> basename(source)]] >>

\* csv.DictReader: the first line names the fields, every other line that
\* is not empty is a row; a field the row lacks has no value
DictReader(raw) ==
    LET lines  == SelectSeq(SplitOn(raw, "\n"), LAMBDA l : l # <<>>)
        fields == [k \in 1..Len(lines) |-> SplitOn(lines[k], ",")]
    IN  IF lines = <<>> THEN <<>>
        ELSE [r \in 1..(Len(lines) - 1) |->
                [i \in 1..Len(fields[1]) |->
                    [key   |-> fields[1][i],
                     value |-> IF i <= Len(fields[r + 1])
                               THEN fields[r + 1][i] ELSE <<>>]]]

\* "\n".join(f"{key}: {value}" for key, value in row.items() if value)
RowContent(row) ==
    LET valued == SelectSeq(row, LAMBDA f : f.value # <<>>)
    IN  Join([i \in 1..Len(valued) |->
                 valued[i].key \o <<":", " ">> \o valued[i].value], <<"\n">>)

\* CSVParser.parse: one unit per row, numbered from 1
CSVParser_parse(raw, source) ==
    LET rows == DictReader(raw)
    IN  [r \in 1..Len(rows) |->
            [content  |-> RowContent(rows[r]),
             metadata |-> [source |-> source, type |-> "csv",
                           filename |-> basename(source), row |-> r]]]

\* variant: chunk metadata that carries the unit's metadata along
_chunk_document_text_forward(doc, file_path, chunk_size, chunk_overlap) ==
    LET chunks == chunk_texts(doc.content, chunk_size, chunk_overlap)
    IN  [i \in 1..Len(chunks) |->
            [content  |-> chunks[i],
             metadata |-> [k \in DOMAIN doc.metadata \cup {"chunk_size"} |->
                              IF k = "chunk_size" THEN Len(chunks[i])
                              ELSE doc.metadata[k]]]]

\* _chunk_document on a unit's text: the chunk texts, each under metadata
\* made anew
_chunk_document_text(doc, file_path, chunk_size, chunk_overlap) ==
    LET chunks == chunk_texts(doc.content, chunk_size, chunk_overlap)
        file_type == IF "type" \in DOMAIN doc.metadata THEN doc.metadata.type
                     ELSE SplitLast(_get_file_extension(file_path))
    IN  [i \in 1..Len(chunks) |->
            [content  |-> chunks[i],
             metadata |-> [chunk_size |-> Len(chunks[i]),
                           filename   |-> basename(file_path),
                           type       |-> file_type]]]

(* --------------------------- vector_store.py -------------------------- *)

\* the collection: a function from the ids it holds to their records

\* variant: an add that rejects a batch holding an id already stored
add_documents_strict(st, ids, documents, metadatas) ==
    IF \E i \in 1..Len(ids) : ids[i] \in DOMAIN st
    THEN [raised |-> TRUE, store |-> st]
    ELSE [raised |-> FALSE,
          store |-> [id \in DOMAIN st \cup {ids[i] : i \in 1..Len(ids)} |->
                        IF id \in DOMAIN st THEN st[id]
                        ELSE LET i == CHOOSE i \in 1..Len(ids) : ids[i] = id
                             IN  [document |-> documents[i], metadata |-> metadatas[i]]]]

\* collection.add (not collection.upsert): an id the collection already
\* holds keeps its record and is no error; the other ids are inserted
add_documents(st, ids, documents, metadatas) ==
    [raised |-> FALSE,
     store |-> [id \in DOMAIN st \cup {ids[i] : i \in 1..Len(ids)} |->
                   IF id \in DOMAIN st THEN st[id]
                   ELSE LET i == CHOOSE i \in 1..Len(ids) : ids[i] = id
                        IN  [document |-> documents[i], metadata |-> metadatas[i]]]]

\* variant: a delete that removes one of the ids only
delete_documents_first(st, ids) ==
    IF ids = {} THEN st
    ELSE LET one == CHOOSE id \in ids : TRUE
         IN  [id \in DOMAIN st \ {one} |-> st[id]]

\* collection.delete(ids): unknown ids are no error
delete_documents(st, ids) == [id \in DOMAIN st \ ids |-> st[id]]

\* variant: a lookup that filters on the filename field
get_documents_by_source_filename(st, source_file) ==
    {id \in DOMAIN st : st[id].metadata.filename = source_file}

get_documents_by_source(st, source_file) ==
    {id \in DOMAIN st : st[id].metadata.source = source_file}

\* ChromaVectorStore defines no get_number_of_documents: the call raises
\* AttributeError whatever the collection holds
get_number_of_documents(st) == [raised |-> TRUE, count |-> Cardinality(DOMAIN st)]

(* ---------------------- indexer.py: add and remove -------------------- *)

\* a call an operation made, and whether it returned without an exception
Call(name, ok) == [name |-> name, ok |-> ok]

\* an operation that did not run because an exception had left the handler
NotRun(st) == [store |-> st, ret |-> 0, raised |-> TRUE, calls |-> <<>>]

\* variant: the source recorded as the file's name
WithSource_name(meta, file_path) ==
    [k \in DOMAIN meta \cup {"source"} |->
        IF k = "source" THEN basename(file_path) ELSE meta[k]]

\* meta = doc['metadata'].copy(); meta['source'] = file_path
WithSource(meta, file_path) ==
    [k \in DOMAIN meta \cup {"source"} |->
        IF k = "source" THEN file_path ELSE meta[k]]

\* index_file once the file is parsed and chunked: nothing is added for no
\* chunk, else the chunks are added under positional ids
index_chunks(st, chunked_docs, file_path, addFails) ==
    LET n         == Len(chunked_docs)
        contents  == [i \in 1..n |-> chunked_docs[i].content]
        ids       == [i \in 1..n |-> generate_doc_id(file_path, i - 1)]
        metadatas == [i \in 1..n |-> WithSource(chunked_docs[i].metadata, file_path)]
    IN  IF n = 0
        THEN [store |-> st, ret |-> 0, raised |-> FALSE, added |-> FALSE,
              calls |-> <<Call("parse_file", TRUE)>>]
        ELSE LET a == add_documents(st, ids, contents, metadatas)
             IN  IF addFails \/ a.raised
                 THEN [store |-> st, ret |-> 0, raised |-> FALSE, added |-> TRUE,
                       calls |-> <<Call("parse_file", TRUE),
                                   Call("add_documents", FALSE)>>]
                 ELSE [store |-> a.store, ret |-> n, raised |-> FALSE,
                       added |-> TRUE,
                       calls |-> <<Call("parse_file", TRUE),
                                   Call("add_documents", TRUE)>>]

\* index_file: the file's chunks are added under positional ids; every
\* exception (a failing add included) is caught and answered with 0
index_file(st, dk, file_path, addFails) ==
    IF ~ supported_file[file_path]
    THEN [store |-> st, ret |-> 0, raised |-> FALSE, added |-> FALSE,
          calls |-> <<>>]
    ELSE index_chunks(st, parse_file(dk, file_path), file_path, addFails)

\* variant: a removal without the try block
remove_file_from_index_uncaught(st, file_path, getFails, delFails) ==
    IF getFails
    THEN [store |-> st, ret |-> 0, raised |-> TRUE,
          calls |-> <<Call("get_documents_by_source", FALSE)>>]
    ELSE LET doc_ids == get_documents_by_source(st, file_path)
         IN  IF doc_ids = {}
             THEN [store |-> st, ret |-> 0, raised |-> FALSE,
                   calls |-> <<Call("get_documents_by_source", TRUE)>>]
             ELSE IF delFails
             THEN [store |-> st, ret |-> 0, raised |-> TRUE,
                   calls |-> <<Call("get_documents_by_source", TRUE),
                               Call("delete_documents", FALSE)>>]
             ELSE [store |-> delete_documents(st, doc_ids),
                   ret |-> Cardinality(doc_ids), raised |-> FALSE,
                   calls |-> <<Call("get_documents_by_source", TRUE),
                               Call("delete_documents", TRUE)>>]

\* remove_file_from_index: look the path's ids up and delete them; a failing
\* lookup or delete is caught and answered with 0
remove_file_from_index(st, file_path, getFails, delFails) ==
    IF getFails
    THEN [store |-> st, ret |-> 0, raised |-> FALSE,
          calls |-> <<Call("get_documents_by_source", FALSE)>>]
    ELSE LET doc_ids == get_documents_by_source(st, file_path)
         IN  IF doc_ids = {}
             THEN [store |-> st, ret |-> 0, raised |-> FALSE,
                   calls |-> <<Call("get_documents_by_source", TRUE)>>]
             ELSE IF delFails
             THEN [store |-> st, ret |-> 0, raised |-> FALSE,
                   calls |-> <<Call("get_documents_by_source", TRUE),
                               Call("delete_documents", FALSE)>>]
             ELSE [store |-> delete_documents(st, doc_ids),
                   ret |-> Cardinality(doc_ids), raised |-> FALSE,
                   calls |-> <<Call("get_documents_by_source", TRUE),
                               Call("delete_documents", TRUE)>>]

(* ------------------------------- state -------------------------------- *)

VARIABLES
    disk,           \* the watched folder: path -> file or Absent
    store,          \* the persistent collection: id -> record
    phase,          \* main(): "down", "scanning" (initial_index), "watching"
    toScan,         \* initial_index: the listed files not yet indexed
    observerAlive,  \* the event-delivery thread runs
    queue,          \* events delivered to the observer, not yet handled
    last,           \* the operation that ran last and its outcome
    fsOps,          \* changes made to the folder so far
    runs,           \* process starts so far
    job,            \* one file on its way through parser, chunker and add
    agent,          \* one run of the agent graph: node, messages, turns
    GEMINI_API      \* the environment holds the key of the image parser

vars == <<disk, store, phase, toScan, observerAlive, queue, last, fsOps, runs,
          job, agent, GEMINI_API>>

EmptyStore == [id \in {} |-> {}]

NoOp == [op |-> "none", path |-> <<>>, acted |-> FALSE, raised |-> FALSE,
         removed |-> 0, indexed |-> 0, failed |-> FALSE, file |-> Absent,
         before |-> EmptyStore, calls |-> <<>>]

Event(type, p) == [event_type |-> type, src_path |-> p, is_directory |-> FALSE]

DirEvent(type, p) == [event_type |-> type, src_path |-> p, is_directory |-> TRUE]

\* FileMovedEvent: a file of the folder renamed inside the folder
MoveEvent(p, q) ==
    [event_type |-> "moved", src_path |-> p, is_directory |-> FALSE,
     dest_path |-> q]

NoJob == [stage |-> "none"]

NoRun == [node |-> "none"]

\* no process started yet, the folder and the collection empty
Idle ==
    /\ disk = [p \in Tree |-> Absent]
    /\ store = EmptyStore
    /\ phase = "down"
    /\ toScan = {}
    /\ observerAlive = FALSE
    /\ queue = <<>>
    /\ last = NoOp
    /\ fsOps = 0
    /\ runs = 0

Init == Idle /\ job = NoJob /\ agent = NoRun /\ GEMINI_API \in BOOLEAN

(* ---------------------------- environment ----------------------------- *)

\* the observer is scheduled on the folder only while main() watches
Notify(type, p) ==
    queue' = IF phase = "watching" THEN Append(queue, Event(type, p)) ELSE queue

\* a file is written: created when it was absent, modified otherwise
FsWrite ==
    \E p \in Paths : \E c \in Written(p) :
        /\ fsOps < MaxFsOps
        /\ disk' = [disk EXCEPT ![p] = c]
        /\ Notify(IF disk[p].exists THEN "modified" ELSE "created", p)
        /\ fsOps' = fsOps + 1
        /\ UNCHANGED <<GEMINI_API, agent, job, store, phase, toScan, observerAlive, last, runs>>

FsDelete ==
    \E p \in Paths :
        /\ fsOps < MaxFsOps
        /\ disk[p].exists
        /\ disk' = [disk EXCEPT ![p] = Absent]
        /\ Notify("deleted", p)
        /\ fsOps' = fsOps + 1
        /\ UNCHANGED <<GEMINI_API, agent, job, store, phase, toScan, observerAlive, last, runs>>

\* the renames the environment makes: to a supported and to an unsupported name
Renames == {<<FileA, FileB>>, <<FileA, FileMd>>}

\* a file is renamed inside the folder
FsMove ==
    \E m \in Renames :
        /\ fsOps < MaxFsOps
        /\ disk[m[1]].exists
        /\ ~ disk[m[2]].exists
        /\ disk' = [disk EXCEPT ![m[1]] = Absent, ![m[2]] = disk[m[1]]]
        /\ queue' = IF phase = "watching"
                    THEN Append(queue, MoveEvent(m[1], m[2])) ELSE queue
        /\ fsOps' = fsOps + 1
        /\ UNCHANGED <<GEMINI_API, agent, job, store, phase, toScan,
                       observerAlive, last, runs>>

\* variant: a watch scheduled on the whole tree
recursive_tree == TRUE

\* observer.schedule(event_handler, source_folder, recursive=False)
recursive == FALSE

\* a subfolder is made in the watched folder
FsMkdir ==
    /\ fsOps < MaxFsOps
    /\ ~ disk[SubDir].exists
    /\ disk' = [disk EXCEPT ![SubDir] = Dir]
    /\ queue' = IF phase = "watching"
                THEN Append(queue, DirEvent("created", SubDir)) ELSE queue
    /\ fsOps' = fsOps + 1
    /\ UNCHANGED <<GEMINI_API, agent, job, store, phase, toScan, observerAlive, last, runs>>

\* a file is written in the subfolder: a watch that is not recursive sees
\* at most a change of the subfolder itself
FsWriteSub ==
    /\ fsOps < MaxFsOps
    /\ disk[SubDir].exists
    /\ disk' = [disk EXCEPT ![SubFile] = V1]
    /\ queue' = IF phase # "watching" THEN queue
                ELSE IF recursive
                THEN Append(queue, Event(IF disk[SubFile].exists THEN "modified"
                                         ELSE "created", SubFile))
                ELSE Append(queue, DirEvent("modified", SubDir))
    /\ fsOps' = fsOps + 1
    /\ UNCHANGED <<GEMINI_API, agent, job, store, phase, toScan, observerAlive, last, runs>>

(* ------------------------------- main() ------------------------------- *)

\* main() up to the listing of initial_index: the chunker is constructed
\* first, and an exception of its constructor ends main()
Main ==
    /\ phase = "down"
    /\ runs < MaxRuns
    /\ runs' = runs + 1
    /\ IF get_chunker(GEMINI_API).raised
       THEN /\ phase' = "down"
            /\ toScan' = {}
       ELSE /\ phase' = "scanning"
            /\ toScan' = {p \in Entries : disk[p].exists /\ supported_file[p]}
    /\ queue' = <<>>
    /\ observerAlive' = FALSE
    /\ UNCHANGED <<GEMINI_API, agent, job, disk, store, last, fsOps>>

\* one turn of the loop of initial_index
InitialIndexStep(F) ==
    \E p \in toScan, addFails \in F :
        LET r == index_file(store, disk, p, addFails)
        IN  /\ phase = "scanning"
            /\ store' = r.store
            /\ toScan' = toScan \ {p}
            /\ last' = [op |-> "initial_index", path |-> p, acted |-> TRUE,
                        raised |-> r.raised, removed |-> 0, indexed |-> r.ret,
                        failed |-> addFails, file |-> disk[p],
                        before |-> store, calls |-> r.calls]
            /\ UNCHANGED <<GEMINI_API, agent, job, disk, phase, observerAlive, queue, fsOps, runs>>

\* observer.schedule, observer.start
StartObserver ==
    /\ phase = "scanning"
    /\ toScan = {}
    /\ phase' = "watching"
    /\ observerAlive' = TRUE
    /\ queue' = <<>>
    /\ UNCHANGED <<GEMINI_API, agent, job, disk, store, toScan, last, fsOps, runs>>

\* main() logs the document count after starting the observer: the call
\* raises, main() ends and takes the daemon observer thread with it
MainCount ==
    /\ phase = "watching"
    /\ get_number_of_documents(store).raised
    /\ phase' = "down"
    /\ observerAlive' = FALSE
    /\ queue' = <<>>
    /\ UNCHANGED <<GEMINI_API, agent, job, disk, store, toScan, last, fsOps, runs>>

(* -------------------------- FileWatchHandler -------------------------- *)

\* doc_count = self.store.get_number_of_documents(), the last call of a
\* handler that acts
count_documents(st) ==
    [store |-> st, ret |-> 0, raised |-> get_number_of_documents(st).raised,
     calls |-> <<Call("get_number_of_documents",
                      ~ get_number_of_documents(st).raised)>>]

Dispatch(type) ==
    /\ phase = "watching"
    /\ observerAlive
    /\ queue # <<>>
    /\ Head(queue).event_type = type
    /\ queue' = Tail(queue)

\* an exception that leaves a handler ends the event-delivery thread
Handled(rec) ==
    /\ last' = rec
    /\ observerAlive' = ~ rec.raised

Skipped(op) ==
    [op |-> op, path |-> Head(queue).src_path, acted |-> FALSE, raised |-> FALSE,
     removed |-> 0, indexed |-> 0, failed |-> FALSE,
     file |-> disk[Head(queue).src_path], before |-> store, calls |-> <<>>]

on_created(F) ==
    /\ Dispatch("created")
    /\ LET file_path == Head(queue).src_path
       IN  IF Head(queue).is_directory \/ ~ supported_file[file_path]
           THEN /\ Handled(Skipped("on_created"))
                /\ UNCHANGED store
           ELSE \E addFails \in F :
                  LET r == index_file(store, disk, file_path, addFails)
                      c == IF r.raised THEN NotRun(r.store)
                           ELSE count_documents(r.store)
                  IN  /\ store' = r.store
                      /\ Handled([op |-> "on_created", path |-> file_path,
                                  acted |-> TRUE, raised |-> r.raised \/ c.raised,
                                  removed |-> 0, indexed |-> r.ret,
                                  failed |-> addFails, file |-> disk[file_path],
                                  before |-> store,
                                  calls |-> r.calls \o c.calls])
    /\ UNCHANGED <<GEMINI_API, agent, job, disk, phase, toScan, fsOps, runs>>

on_deleted(F) ==
    /\ Dispatch("deleted")
    /\ LET file_path == Head(queue).src_path
       IN  IF Head(queue).is_directory \/ ~ supported_file[file_path]
           THEN /\ Handled(Skipped("on_deleted"))
                /\ UNCHANGED store
           ELSE \E getFails \in F, delFails \in F :
                  LET d == remove_file_from_index(store, file_path, getFails, delFails)
                      c == IF d.raised THEN NotRun(d.store)
                           ELSE count_documents(d.store)
                  IN  /\ store' = d.store
                      /\ Handled([op |-> "on_deleted", path |-> file_path,
                                  acted |-> TRUE, raised |-> d.raised \/ c.raised,
                                  removed |-> d.ret, indexed |-> 0,
                                  failed |-> getFails \/ delFails,
                                  file |-> disk[file_path], before |-> store,
                                  calls |-> d.calls \o c.calls])
    /\ UNCHANGED <<GEMINI_API, agent, job, disk, phase, toScan, fsOps, runs>>

on_modified(F) ==
    /\ Dispatch("modified")
    /\ LET file_path == Head(queue).src_path
       IN  IF Head(queue).is_directory \/ ~ supported_file[file_path]
           THEN /\ Handled(Skipped("on_modified"))
                /\ UNCHANGED store
           ELSE \E getFails \in F, delFails \in F, addFails \in F :
                  LET d == remove_file_from_index(store, file_path, getFails, delFails)
                      r == IF d.raised THEN NotRun(d.store)
                           ELSE index_file(d.store, disk, file_path, addFails)
                      c == IF r.raised THEN NotRun(r.store)
                           ELSE count_documents(r.store)
                  IN  /\ store' = r.store
                      /\ Handled([op |-> "on_modified", path |-> file_path,
                                  acted |-> TRUE,
                                  raised |-> d.raised \/ r.raised \/ c.raised,
                                  removed |-> d.ret, indexed |-> r.ret,
                                  failed |-> getFails \/ delFails \/ addFails,
                                  file |-> disk[file_path], before |-> store,
                                  calls |-> d.calls \o r.calls \o c.calls])
    /\ UNCHANGED <<GEMINI_API, agent, job, disk, phase, toScan, fsOps, runs>>

\* variant: a move handler that indexes the file under its new path
on_moved_reindex(st, dk, src_path, dest_path) ==
    index_file(st, dk, dest_path, FALSE).store

\* FileWatchHandler defines no on_moved: the handler it inherits does nothing
FileSystemEventHandler_on_moved(st, dk, src_path, dest_path) == st

on_moved ==
    /\ Dispatch("moved")
    /\ store' = FileSystemEventHandler_on_moved(store, disk, Head(queue).src_path,
                                             Head(queue).dest_path)
    /\ Handled([op |-> "on_moved", path |-> Head(queue).src_path,
                acted |-> FALSE, raised |-> FALSE, removed |-> 0, indexed |-> 0,
                failed |-> FALSE, file |-> disk[Head(queue).src_path],
                before |-> store, calls |-> <<>>,
                dest |-> Head(queue).dest_path])
    /\ UNCHANGED <<GEMINI_API, agent, job, disk, phase, toScan, fsOps, runs>>

(* -------------- one file through parser, chunker and add -------------- *)

Alphabet == {"a", "b", " ", "\n"}

\* the texts of at most MaxText characters
Texts == UNION {[1..n -> Alphabet] : n \in 0..MaxText}

\* 2500 characters without a separator
Plain2500 == [i \in 1..2500 |-> "x"]

\* 2500 characters in four paragraphs
Para2500 ==
    [i \in 1..2500 |->
        IF i \in {701, 702, 1403, 1404, 2105, 2106} THEN "\n" ELSE "x"]

\* header name,age and the row Alice,30
CsvAlice == <<"n","a","m","e",",","a","g","e","\n",
              "A","l","i","c","e",",","3","0","\n">>

\* header k,v and the rows a,(nothing) and b,c
CsvTwo == <<"k",",","v","\n", "a",",","\n", "b",",","c","\n">>

Job(file_path, raw, chunk_size, chunk_overlap) ==
    [stage |-> "file", file_path |-> file_path, raw |-> raw,
     chunk_size |-> chunk_size, chunk_overlap |-> chunk_overlap,
     documents |-> <<>>, chunks |-> <<>>, ret |-> 0, store |-> EmptyStore]

\* a chunker of any small size on any short text, and the chunker of main()
\* on the long texts and on the CSV files
Jobs ==
    {Job(FileA, t, pair[1], pair[2]) :
        t \in Texts,
        pair \in {q \in (1..MaxChunk) \X (0..MaxChunk) : q[2] < q[1]}}
    \cup {Job(FileTxt, t, DefaultChunkSize, DefaultChunkOverlap) :
            t \in {Plain2500, Para2500}}
    \cup {Job(FileCsv, t, DefaultChunkSize, DefaultChunkOverlap) :
            t \in {CsvAlice, CsvTwo}}

ChunkInit == Idle /\ job \in Jobs /\ agent = NoRun /\ GEMINI_API = TRUE

\* parser.parse(str(file_path)) with the parser of the file's extension
JobParse ==
    /\ job.stage = "file"
    /\ job' = [job EXCEPT
                 !.stage = "parsed",
                 !.documents = IF _get_parser(job.file_path) = "csv"
                               THEN CSVParser_parse(job.raw, job.file_path)
                               ELSE TextParser_parse(job.raw, job.file_path)]
    /\ UNCHANGED <<GEMINI_API, agent, disk, store, phase, toScan, observerAlive, queue,
                   last, fsOps, runs>>

\* parse_file: _chunk_document on every unit
JobChunk ==
    /\ job.stage = "parsed"
    /\ job' = [job EXCEPT
                 !.stage = "chunked",
                 !.chunks = [u \in 1..Len(job.documents) |->
                               _chunk_document_text(job.documents[u], job.file_path,
                                                    job.chunk_size, job.chunk_overlap)]]
    /\ UNCHANGED <<GEMINI_API, agent, disk, store, phase, toScan, observerAlive, queue,
                   last, fsOps, runs>>

\* index_file on the chunks of all units, into an empty collection
JobIndex ==
    /\ job.stage = "chunked"
    /\ LET r == index_chunks(EmptyStore, Concat(job.chunks, 1, Len(job.chunks)),
                             job.file_path, FALSE)
       IN  job' = [job EXCEPT !.stage = "stored", !.ret = r.ret, !.store = r.store]
    /\ UNCHANGED <<GEMINI_API, agent, disk, store, phase, toScan, observerAlive, queue,
                   last, fsOps, runs>>

(* ---------------- agent/utils/vector_store_retriever.py --------------- *)

\* n_results: int = 4
DefaultNResults == 4

\* a metadata value: a string or an integer
StrVal(s) == [kind |-> "str", val |-> s]

IntVal(n) == [kind |-> "int", val |-> n]

\* None, for a record stored without metadata
NoMeta == <<>>

\* the metadata index_file stores: the keys in the order they were set
MetaA ==
    << <<<<"c","h","u","n","k","_","s","i","z","e">>, IntVal(2)>>,
       <<<<"f","i","l","e","n","a","m","e">>, StrVal(basename(FileA))>>,
       <<<<"t","y","p","e">>, StrVal(<<"t","e","x","t">>)>>,
       <<<<"s","o","u","r","c","e">>, StrVal(FileA)>> >>

\* a record of the served collection as one query ranks it: the distance is
\* counted in ten-thousandths
Hit(document, metadata, distance) ==
    [document |-> document, metadata |-> metadata, distance |-> distance]

Hits ==
    { Hit(<<"p","q">>, MetaA, 2500),
      Hit(<<"q","r">>, MetaA, 10000),
      Hit(<<"s">>, NoMeta, 12000) }

\* the served collections of at most MaxHits records, nearest record first
Rankings ==
    {r \in UNION {[1..n -> Hits] : n \in 0..MaxHits} :
        \A i \in 1..Len(r), j \in 1..Len(r) :
            i < j => r[i].distance < r[j].distance}

\* str(e) of a failing query
QueryError == <<"d","o","w","n">>

Min(a, b) == IF a < b THEN a ELSE b

\* VectorStoreRetriever.query: collection.query for one query text returns
\* one list of documents, of metadatas and of distances, each holding the
\* n_results nearest records, or fewer when the collection holds fewer
query(ranked, n_results, fails) ==
    LET k == Min(n_results, Len(ranked))
    IN  IF fails
        THEN [raised |-> TRUE, message |-> QueryError]
        ELSE [raised |-> FALSE,
              results |->
                [documents |-> << [i \in 1..k |-> ranked[i].document] >>,
                 metadatas |-> << [i \in 1..k |-> ranked[i].metadata] >>,
                 distances |-> << [i \in 1..k |-> ranked[i].distance] >>]]

(* -------------------- agent/tools/retriever_tool.py ------------------- *)

Sentinel ==
    <<"N","o"," ","r","e","l","e","v","a","n","t"," ","d","o","c","u","m",
      "e","n","t","s"," ","f","o","u","n","d"," ","i","n"," ","t","h","e",
      " ","v","e","c","t","o","r"," ","s","t","o","r","e",".">>

ErrorPrefix ==
    <<"E","r","r","o","r"," ","s","e","a","r","c","h","i","n","g"," ","v",
      "e","c","t","o","r"," ","s","t","o","r","e",":"," ">>

\* repr of a metadata value and of a metadata dict
ReprValue(v) ==
    IF v.kind = "int" THEN Str(v.val) ELSE <<"'">> \o v.val \o <<"'">>

ReprItem(item) == <<"'">> \o item[1] \o <<"'", ":", " ">> \o ReprValue(item[2])

Repr(metadata) ==
    <<"{">> \o Join([i \in 1..Len(metadata) |-> ReprItem(metadata[i])], <<",", " ">>)
            \o <<"}">>

\* f"{x:.4f}" for x counted in ten-thousandths
Fixed4(x) ==
    LET a == IF x < 0 THEN 0 - x ELSE x
        d == Str(a % 10000)
    IN  (IF x < 0 THEN <<"-">> ELSE <<>>) \o Str(a \div 10000) \o <<".">>
            \o [i \in 1..(4 - Len(d)) |-> "0"] \o d

\* f"\n--- Result {i+1} ---\n" for the i-th document, i counted from 1 here
ResultHeader(i) == <<"\n","-","-","-"," ","R","e","s","u","l","t"," ">> \o Str(i) \o <<" ","-","-","-","\n">>

ContentLabel == <<"C","o","n","t","e","n","t",":"," ">>

MetadataLabel == <<"M","e","t","a","d","a","t","a",":"," ">>

RelevanceLabel == <<"R","e","l","e","v","a","n","c","e"," ","S","c","o","r","e",":"," ">>

\* the text of the loop body for the i-th document
result_text(documents, metadatas, distances, i) ==
    ResultHeader(i) \o ContentLabel \o documents[i] \o <<"\n">>
    \o (IF metadatas # <<>> /\ i <= Len(metadatas) /\ metadatas[i] # NoMeta
        THEN MetadataLabel \o Repr(metadatas[i]) \o <<"\n">> ELSE <<>>)
    \o (IF distances # <<>> /\ i <= Len(distances)
        THEN RelevanceLabel \o Fixed4(10000 - distances[i]) \o <<"\n">>
        ELSE <<>>)

\* the formatting of a query result that holds at least one document
formatted(results) ==
    LET documents == results.documents[1]
        metadatas == IF results.metadatas # <<>> THEN results.metadatas[1]
                     ELSE <<>>
        distances == IF results.distances # <<>> THEN results.distances[1]
                     ELSE <<>>
    IN  Join([i \in 1..Len(documents) |->
                 result_text(documents, metadatas, distances, i)], <<"\n">>)

\* variant: a search without the test for an empty result
vector_store_search_unchecked(ranked, n_results, fails) ==
    LET r == query(ranked, n_results, fails)
    IN  IF r.raised
        THEN [raised |-> FALSE, text |-> ErrorPrefix \o r.message, outcome |-> r]
        ELSE [raised |-> FALSE, text |-> formatted(r.results), outcome |-> r]

\* variant: a search without the try block
vector_store_search_bare(ranked, n_results, fails) ==
    LET r == query(ranked, n_results, fails)
    IN  IF r.raised
        THEN [raised |-> TRUE, text |-> <<>>, outcome |-> r]
        ELSE IF r.results.documents = <<>> \/ r.results.documents[1] = <<>>
        THEN [raised |-> FALSE, text |-> Sentinel, outcome |-> r]
        ELSE [raised |-> FALSE, text |-> formatted(r.results), outcome |-> r]

\* vector_store_search: the text handed back, whether the call raised, and
\* the outcome of the query behind it
vector_store_search(ranked, n_results, fails) ==
    LET r == query(ranked, n_results, fails)
    IN  IF r.raised
        THEN [raised |-> FALSE, text |-> ErrorPrefix \o r.message, outcome |-> r]
        ELSE IF r.results.documents = <<>> \/ r.results.documents[1] = <<>>
        THEN [raised |-> FALSE, text |-> Sentinel, outcome |-> r]
        ELSE [raised |-> FALSE, text |-> formatted(r.results), outcome |-> r]

(* ---------------------------- agent/main.py --------------------------- *)

END == "__end__"

HumanMessage(content) == [type |-> "human", content |-> content, tool_calls |-> <<>>]

AIMessage(content, tool_calls) ==
    [type |-> "ai", content |-> content, tool_calls |-> tool_calls]

ToolMessage(content) == [type |-> "tool", content |-> content, tool_calls |-> <<>>]

ToolCall(n_results) ==
    [name |-> "vector_store_search", args |-> [query |-> <<"q">>, n_results |-> n_results]]

\* what the model may answer: a text, or a request for one or two searches
Responses ==
    { AIMessage(<<"o","k">>, <<>>),
      AIMessage(<<>>, <<ToolCall(1)>>),
      AIMessage(<<>>, <<ToolCall(DefaultNResults)>>),
      AIMessage(<<>>, <<ToolCall(1), ToolCall(DefaultNResults)>>) }

\* variant: a router that ends the run on a request for tools
should_continue_reversed(messages) ==
    LET last_message == messages[Len(messages)]
    IN  IF last_message.tool_calls # <<>> THEN END ELSE "tools"

should_continue(messages) ==
    LET last_message == messages[Len(messages)]
    IN  IF last_message.tool_calls # <<>> THEN "tools" ELSE END

\* workflow.set_entry_point("agent")
entry_point == "agent"

\* graph.invoke(initial_state): one human message, the run at the entry point;
\* key tells whether OPENAI_API_KEY is set, ranked is the served collection
Run(key, ranked) ==
    [node |-> entry_point, messages |-> <<HumanMessage(<<"q">>)>>, turns |-> 0,
     key |-> key, ranked |-> ranked, searches |-> <<>>]

Runs == {Run(key, ranked) : key \in BOOLEAN, ranked \in Rankings}

AgentInit == Idle /\ job = NoJob /\ agent \in Runs /\ GEMINI_API = TRUE

\* the agent node and the conditional edge that leaves it: get_llm raises
\* without the key, else the answer of the model is appended and routed
create_agent_node ==
    /\ agent.node = "agent"
    /\ agent.turns < MaxTurns
    /\ IF ~ agent.key
       THEN agent' = [agent EXCEPT !.node = "raised"]
       ELSE \E response \in Responses :
              LET messages == Append(agent.messages, response)
              IN  agent' = [agent EXCEPT !.node = should_continue(messages),
                                         !.messages = messages,
                                         !.turns = agent.turns + 1]
    /\ UNCHANGED <<GEMINI_API, job, disk, store, phase, toScan, observerAlive,
                   queue, last, fsOps, runs>>

\* the tools node and the edge back to the agent: every requested search
\* runs and its text is appended as a tool message
create_tool_node ==
    /\ agent.node = "tools"
    /\ \E fails \in BOOLEAN :
         LET tool_calls == agent.messages[Len(agent.messages)].tool_calls
             searches == [i \in 1..Len(tool_calls) |->
                            vector_store_search(agent.ranked,
                                                tool_calls[i].args.n_results, fails)]
         IN  IF \E i \in 1..Len(searches) : searches[i].raised
             THEN agent' = [agent EXCEPT !.node = "raised", !.searches = searches]
             ELSE agent' = [agent EXCEPT
                              !.node = "agent",
                              !.searches = searches,
                              !.messages = agent.messages \o
                                  [i \in 1..Len(searches) |->
                                      ToolMessage(searches[i].text)]]
    /\ UNCHANGED <<GEMINI_API, job, disk, store, phase, toScan, observerAlive,
                   queue, last, fsOps, runs>>

(* --------------------------- specifications --------------------------- *)

Reliable == {FALSE}

Next ==
    \/ FsWrite
    \/ FsDelete
    \/ FsMkdir
    \/ FsWriteSub
    \/ FsMove
    \/ Main
    \/ InitialIndexStep(Reliable)
    \/ StartObserver
    \/ MainCount
    \/ on_created(Reliable)
    \/ on_deleted(Reliable)
    \/ on_modified(Reliable)
    \/ on_moved

Spec == Init /\ [][Next]_vars

\* the store may fail; the folder sees writes and deletes of its own files
FaultNext ==
    \/ FsWrite
    \/ FsDelete
    \/ Main
    \/ InitialIndexStep(BOOLEAN)
    \/ StartObserver
    \/ MainCount
    \/ on_created(BOOLEAN)
    \/ on_deleted(BOOLEAN)
    \/ on_modified(BOOLEAN)

FaultSpec == Init /\ [][FaultNext]_vars

ChunkNext ==
    \/ JobParse
    \/ JobChunk
    \/ JobIndex

ChunkSpec == ChunkInit /\ [][ChunkNext]_vars

AgentNext ==
    \/ create_agent_node
    \/ create_tool_node

AgentSpec == AgentInit /\ [][AgentNext]_vars

(* ------------------------- terms of the claims ------------------------ *)

Handlers == {"on_created", "on_modified", "on_deleted"}

\* the operations that run index_file
IndexOps == {"initial_index", "on_created", "on_modified"}

\* "{basename(path)}_{first 8 hex chars of md5(path)}_{ordinal}"
ClaimIdPrefix ==
    [p \in KnownPaths |-> basename(p) \o <<"_">> \o Md5Hex8(p) \o <<"_">>]

ClaimId(path, ordinal) == ClaimIdPrefix[path] \o Str(ordinal)

\* the chunks parsing and chunking yield for file f stored at path p
ChunksOf(p, f) == parse_file([q \in Tree |-> IF q = p THEN f ELSE Absent], p)

\* the records a store holds for a path: id and text
RecordsOf(st, p) ==
    {[id |-> id, document |-> st[id].document] :
        id \in {i \in DOMAIN st : st[i].metadata.source = p}}

\* the records the chunks of file f at path p stand for
ExpectedRecords(p, f) ==
    LET chunks == ChunksOf(p, f)
    IN  {[id |-> ClaimId(p, i - 1), document |-> chunks[i].content] :
            i \in 1..Len(chunks)}

\* the extension set of the specification
ClaimExtensions ==
    SUPPORTED_EXTENSIONS \cup { <<"d","o","c">>, <<"g","i","f">> }

ClaimSupported(path) ==
    /\ SplitLast(Lower(path)) \in ClaimExtensions
    /\ ~ StartsWithDot(basename(path))

\* main() watches, and every event a handler will ever be run for has been
\* handled: none is waiting, or the delivery thread has ended
AllHandled ==
    /\ phase = "watching"
    /\ last.op \in Handlers
    /\ (queue = <<>> \/ ~ observerAlive)

(* ------------------------------- claims ------------------------------- *)

\* C1: once every handler has completed, each supported file on disk has
\* as its records exactly the chunks of its current content.
C1_StoreMatchesDisk ==
    AllHandled =>
        \A p \in Paths :
            (disk[p].exists /\ ClaimSupported(p))
                => RecordsOf(store, p) = ExpectedRecords(p, disk[p])

\* C2: once every handler has completed, no record names a file that is
\* absent from disk, and no two records stand for the same path and ordinal.
C2_NoOrphanNoDuplicate ==
    AllHandled =>
        /\ \A id \in DOMAIN store : disk[store[id].metadata.source].exists
        /\ \A i, j \in DOMAIN store :
              (/\ store[i].metadata.source = store[j].metadata.source
               /\ \E k \in 0..9 : /\ i = ClaimId(store[i].metadata.source, k)
                                  /\ j = ClaimId(store[j].metadata.source, k))
                 => i = j

\* C3: after the modify handler the records of the path are exactly the
\* chunks of the new content, under their positional ids; no record of the
\* old content is left, also when the new content has fewer chunks.
C3_ModifyReplaces ==
    (last.op = "on_modified" /\ last.acted)
        => /\ RecordsOf(store, last.path) = ExpectedRecords(last.path, last.file)
           /\ get_documents_by_source(store, last.path)
                 = {ClaimId(last.path, k) :
                       k \in 0..(Len(ChunksOf(last.path, last.file)) - 1)}

\* C3 witness: a modify replaced two old chunks by one new chunk
C3_Witness ==
    /\ last.op = "on_modified"
    /\ last.removed = 2
    /\ last.indexed = 1
    /\ Cardinality(get_documents_by_source(store, last.path)) = 1

\* C4: after the delete handler the path has no record, and every record of
\* another path is as it was before; nothing else was added.
C4_DeleteFrame ==
    (last.op = "on_deleted" /\ last.acted)
        => /\ get_documents_by_source(store, last.path) = {}
           /\ DOMAIN store \subseteq DOMAIN last.before
           /\ \A id \in DOMAIN last.before :
                 last.before[id].metadata.source # last.path
                    => id \in DOMAIN store /\ store[id] = last.before[id]

\* C4 witness: two records were deleted while another file kept its own
C4_Witness ==
    /\ last.op = "on_deleted"
    /\ last.removed = 2
    /\ DOMAIN store # {}
    /\ get_documents_by_source(store, last.path) = {}

\* C5 as stated: after index_file ran on an existing file, the path has as
\* many records as the file has chunks, whatever the store held before.
C5_CountAfterAdd ==
    (last.op \in IndexOps /\ last.acted /\ last.file.exists)
        => Cardinality(get_documents_by_source(store, last.path))
              = Len(ChunksOf(last.path, last.file))

\* the store the add of the last operation started from held no record of
\* the path other than under the ids of the new chunks
NoRecordBeyondNewChunks ==
    \/ last.op = "on_modified"
    \/ get_documents_by_source(last.before, last.path)
          \subseteq {ClaimId(last.path, k) :
                        k \in 0..(Len(ChunksOf(last.path, last.file)) - 1)}

\* C5 amended: after index_file ran on an existing file, the path has as
\* many records as the file has chunks, provided the store held, before the
\* add, no record of that path beyond the ordinals of the new chunks.
C5_CountAfterAddAmended ==
    (last.op \in IndexOps /\ last.acted /\ last.file.exists
        /\ NoRecordBeyondNewChunks)
        => Cardinality(get_documents_by_source(store, last.path))
              = Len(ChunksOf(last.path, last.file))

\* C5 witness: a two-chunk file was added over one record left for its path
C5_Witness ==
    /\ last.op = "initial_index"
    /\ last.file.exists
    /\ Cardinality(get_documents_by_source(last.before, last.path)) = 1
    /\ last.indexed = 2
    /\ Cardinality(get_documents_by_source(store, last.path)) = 2

\* the store the last operation started from held for the path exactly the
\* records of a run of index_file on the same content
SecondRun ==
    /\ last.op \in {"initial_index", "on_created"}
    /\ last.acted
    /\ last.file.exists
    /\ RecordsOf(last.before, last.path) = ExpectedRecords(last.path, last.file)

\* C6: a second run of index_file on an unchanged file leaves the store as
\* the first run left it (same ids, same records) and reports the file's
\* chunk count like the first, not a failure.
C6_IndexIdempotent ==
    SecondRun => /\ store = last.before
                 /\ last.indexed = Len(ChunksOf(last.path, last.file))

\* C6 witness: a two-chunk file already indexed was indexed again
C6_Witness ==
    /\ SecondRun
    /\ last.indexed = 2
    /\ Cardinality(get_documents_by_source(last.before, last.path)) = 2

\* C7: every record's id is basename_md5prefix_ordinal of its source path,
\* the ordinal being the zero-based position of its chunk; the ids an
\* indexing pass writes depend on the path and the ordinals only, so a
\* modify handler that removes an unchanged file and adds it again leaves
\* the same id set.
C7_IdsPositional ==
    /\ \A id \in DOMAIN store :
          \E k \in 0..9 : id = ClaimId(store[id].metadata.source, k)
    /\ (last.op \in IndexOps /\ last.indexed > 0) =>
          /\ {ClaimId(last.path, k) : k \in 0..(last.indexed - 1)}
                \subseteq get_documents_by_source(store, last.path)
          /\ (get_documents_by_source(last.before, last.path) = {}
                => RecordsOf(store, last.path) = ExpectedRecords(last.path, last.file))
    /\ (/\ last.op = "on_modified"
        /\ last.acted
        /\ RecordsOf(last.before, last.path) = ExpectedRecords(last.path, last.file))
          => get_documents_by_source(store, last.path)
                = get_documents_by_source(last.before, last.path)

\* C7 witness: a two-chunk file was removed and added again unchanged
C7_Witness ==
    /\ last.op = "on_modified"
    /\ last.removed = 2
    /\ last.indexed = 2
    /\ RecordsOf(last.before, last.path) = ExpectedRecords(last.path, last.file)

\* C8: every handler returns normally to the event-delivery thread, whatever
\* fails inside it, and the delivery thread stays alive while main() watches.
C8_HandlersReturn ==
    /\ last.op \in Handlers => ~ last.raised
    /\ phase = "watching" => observerAlive

\* C9: when the file is gone at processing time, or its parser raises,
\* index_file answers 0, no record is added to the store, and the initial
\* scan that called it sees no exception.
C9_NothingIndexed ==
    (/\ last.op \in IndexOps
     /\ last.acted
     /\ (~ last.file.exists \/ ~ last.file.parses))
       => /\ last.indexed = 0
          /\ DOMAIN store \subseteq DOMAIN last.before
          /\ (last.op # "on_modified" => store = last.before)
          /\ (last.op = "initial_index" => ~ last.raised)

\* C9 witness: the created file vanished before its handler ran
C9_Witness ==
    /\ last.op = "on_created"
    /\ last.acted
    /\ ~ last.file.exists
    /\ last.indexed = 0

\* C10: a handler acts on a file exactly when its extension, in any case, is
\* one of txt pdf docx doc jpg jpeg png gif bmp tiff csv and its name does
\* not start with a dot.
C10_SupportedSet ==
    /\ last.op \in Handlers => (last.acted <=> ClaimSupported(last.path))
    /\ last.op = "initial_index" => ClaimSupported(last.path)

\* C11: the initial scan lists every supported, non-hidden file of the
\* folder and runs the create path on each; the watcher is started only when
\* the scan has finished for all of them; no event handler runs, and no
\* delivery thread exists, while the scan is in progress.
C11_ScanThenWatch ==
    [][ /\ (phase = "down" /\ phase' = "scanning")
            => toScan' = {p \in Paths : disk[p].exists /\ ClaimSupported(p)}
        /\ (phase = "scanning" /\ phase' = "watching") => toScan = {}
        /\ (phase = "scanning" /\ toScan' # toScan)
            => /\ last'.op = "initial_index"
               /\ last'.path \in toScan \ toScan'
        /\ (last' # last /\ last'.op \in Handlers) => phase = "watching"
        /\ phase' = "scanning" => (~ observerAlive' /\ queue' = <<>>) ]_vars

\* the last operation was a pass of the initial scan, in a later run of the
\* process, over a file whose records the store already held
Rescan ==
    /\ last.op = "initial_index"
    /\ runs >= 2
    /\ last.file.exists
    /\ RecordsOf(last.before, last.path) = ExpectedRecords(last.path, last.file)

\* C12: when the initial scan runs again over an unchanged file whose
\* records the store already holds, the total record count and the id set of
\* the file are what they were, and the scan reports the file's chunk count.
C12_RescanNoDuplicate ==
    Rescan => /\ Cardinality(DOMAIN store) = Cardinality(DOMAIN last.before)
              /\ get_documents_by_source(store, last.path)
                    = get_documents_by_source(last.before, last.path)
              /\ \A id \in DOMAIN last.before :
                    id \in DOMAIN store /\ store[id] = last.before[id]
              /\ last.indexed = Len(ChunksOf(last.path, last.file))
              /\ last.indexed > 0 => ~ last.failed

\* C12 witness: the second run's scan went over a two-chunk file that the
\* first run had indexed
C12_Witness ==
    /\ Rescan
    /\ runs = 2
    /\ last.indexed = 2
    /\ Cardinality(DOMAIN store) = Cardinality(DOMAIN last.before)
    /\ Cardinality(get_documents_by_source(store, last.path)) = 2

\* the handler the observer runs for an event
HandlerOf(event) ==
    CASE event.event_type = "created"  -> "on_created"
      [] event.event_type = "modified" -> "on_modified"
      [] event.event_type = "deleted"  -> "on_deleted"
      [] event.event_type = "moved"    -> "on_moved"

\* C13: delivered events leave the queue from its head only, each taken by
\* its own handler, which completes before the next event is taken; none is
\* dropped, reordered or coalesced: an event that waits has a delivery
\* thread that will handle it.
C13_InOrderNoDrop ==
    [][ /\ queue' # queue
            => \/ /\ Len(queue') = Len(queue) + 1
                  /\ SubSeq(queue', 1, Len(queue)) = queue
               \/ /\ queue # <<>>
                  /\ queue' = Tail(queue)
                  /\ last'.op = HandlerOf(Head(queue))
                  /\ last'.path = Head(queue).src_path
        /\ (phase' = "watching" /\ queue' # <<>>) => observerAlive' ]_vars

\* C14: no record ever names the subfolder or a file inside it; the scan
\* and the handlers never run on a file of the subfolder, the scan indexes
\* nothing for the subfolder and the handlers do not act on it.
C14_NotRecursive ==
    /\ \A id \in DOMAIN store : store[id].metadata.source \notin {SubDir, SubFile}
    /\ last.path # SubFile
    /\ SubFile \notin toScan
    /\ \A i \in 1..Len(queue) : queue[i].src_path # SubFile
    /\ last.path = SubDir => (last.indexed = 0 /\ store = last.before)
    /\ (last.op \in Handlers /\ last.path = SubDir) => ~ last.acted

\* C14 witness: a subfolder named s.txt holds a.txt, and the initial scan
\* has gone over the subfolder
C14_Witness ==
    /\ disk[SubDir].exists
    /\ disk[SubFile].exists
    /\ last.op = "initial_index"
    /\ last.path = SubDir
    /\ last.indexed = 0

\* the chunker has run on the job's units
Chunked == job.stage \in {"chunked", "stored"}

NoWhitespace(content) == \A i \in 1..Len(content) : content[i] \notin Whitespace

\* the last n characters of c are the first n characters of d
Overlap(c, d, n) ==
    /\ Len(c) >= n
    /\ Len(d) >= n
    /\ SubSeq(c, Len(c) - n + 1, Len(c)) = SubSeq(d, 1, n)

\* no chunk of unit u is longer than chunk_size
WithinSize(u) ==
    \A i \in 1..Len(job.chunks[u]) :
        Len(job.chunks[u][i].content) <= job.chunk_size

\* consecutive chunks of unit u repeat chunk_overlap characters
ConsecutiveOverlap(u) ==
    \A i \in 1..(Len(job.chunks[u]) - 1) :
        Overlap(job.chunks[u][i].content, job.chunks[u][i + 1].content,
                job.chunk_overlap)

\* C15 as stated: no chunk is longer than chunk_size, and the last
\* chunk_overlap characters of a chunk are the first of the next chunk of the
\* same unit, whatever the unit's content.
C15_SizeAndOverlap ==
    Chunked => \A u \in 1..Len(job.chunks) : WithinSize(u) /\ ConsecutiveOverlap(u)

\* C15 amended: no chunk is longer than chunk_size; the last chunk_overlap
\* characters of a chunk are the first of the next chunk of the same unit
\* when the unit's content has no whitespace.
C15_SizeAndOverlapAmended ==
    Chunked =>
        \A u \in 1..Len(job.chunks) :
            /\ WithinSize(u)
            /\ NoWhitespace(job.documents[u].content) => ConsecutiveOverlap(u)

\* C15 witness: a text of two different letters and no whitespace was cut
\* into three chunks that overlap by one character
C15_Witness ==
    /\ job.stage = "chunked"
    /\ job.chunk_overlap = 1
    /\ NoWhitespace(job.raw)
    /\ \E i, j \in 1..Len(job.raw) : job.raw[i] # job.raw[j]
    /\ Len(job.chunks[1]) = 3

\* the chunk texts in order, the first n characters of all but the first
\* taken off
RECURSIVE Reassemble(_, _, _)
Reassemble(chunks, i, n) ==
    IF i > Len(chunks) THEN <<>>
    ELSE (IF i = 1 THEN chunks[i].content
          ELSE SubSeq(chunks[i].content, n + 1, Len(chunks[i].content)))
         \o Reassemble(chunks, i + 1, n)

\* whitespace normalization: the text without its whitespace
Normalize(content) == SelectSeq(content, LAMBDA c : c \notin Whitespace)

\* C16 as stated: the chunks of a unit, chunk_overlap characters taken off
\* each but the first, concatenate to the unit's content up to whitespace.
C16_RoundTrip ==
    Chunked =>
        \A u \in 1..Len(job.chunks) :
            Normalize(Reassemble(job.chunks[u], 1, job.chunk_overlap))
                = Normalize(job.documents[u].content)

\* C16 amended: for a unit whose content has no whitespace, the chunks,
\* chunk_overlap characters taken off each but the first, concatenate to the
\* unit's content.
C16_RoundTripAmended ==
    Chunked =>
        \A u \in 1..Len(job.chunks) :
            NoWhitespace(job.documents[u].content)
                => Reassemble(job.chunks[u], 1, job.chunk_overlap)
                      = job.documents[u].content

\* C16 witness: the 2500 characters without whitespace were cut into chunks
\* of 1000, 1000 and 900 characters
C16_Witness ==
    /\ job.stage = "chunked"
    /\ job.raw = Plain2500
    /\ Len(job.chunks[1]) = 3
    /\ Len(job.chunks[1][3].content) = 900

\* a text file of 2500 characters was indexed by the chunker of main()
Indexed2500 ==
    /\ job.stage = "stored"
    /\ job.file_path = FileTxt
    /\ Len(job.raw) = 2500
    /\ job.chunk_size = 1000
    /\ job.chunk_overlap = 200

\* C17 as stated: a 2500-character text file yields 4 chunks, stored under
\* the ids file.txt_<hash8>_0 to file.txt_<hash8>_3.
C17_FourChunks ==
    Indexed2500 => /\ job.ret = 4
                   /\ DOMAIN job.store = {ClaimId(FileTxt, k) : k \in 0..3}

\* C17 amended: a 2500-character text file without whitespace yields 3
\* chunks, stored under the ids file.txt_<hash8>_0 to file.txt_<hash8>_2.
C17_ThreeChunks ==
    (Indexed2500 /\ NoWhitespace(job.raw))
        => /\ job.ret = 3
           /\ DOMAIN job.store = {ClaimId(FileTxt, k) : k \in 0..2}

\* C17 witness: the text without whitespace is stored as three records
C17_Witness ==
    /\ Indexed2500
    /\ job.raw = Plain2500
    /\ Cardinality(DOMAIN job.store) = 3

\* the CSV file with header name,age and the row Alice,30 was chunked
AliceChunked ==
    /\ Chunked
    /\ job.file_path = FileCsv
    /\ job.raw = CsvAlice

\* "name: Alice\nage: 30"
AliceContent ==
    <<"n","a","m","e",":"," ","A","l","i","c","e","\n",
      "a","g","e",":"," ","3","0">>

\* the file has one chunk in all, and its content is s
OneChunk(s) ==
    /\ Len(job.chunks) = 1
    /\ Len(job.chunks[1]) = 1
    /\ job.chunks[1][1].content = s

\* C18 as stated: the file yields exactly one chunk, of content
\* "name: Alice\nage: 30", whose metadata holds row=1 and type="csv".
C18_AliceChunk ==
    AliceChunked =>
        /\ OneChunk(AliceContent)
        /\ job.chunks[1][1].metadata.type = "csv"
        /\ "row" \in DOMAIN job.chunks[1][1].metadata
        /\ job.chunks[1][1].metadata.row = 1

\* C18 amended: the file yields exactly one chunk, of content
\* "name: Alice\nage: 30", whose metadata holds type="csv" and no row; row=1
\* is metadata of the parsed unit only.
C18_AliceChunkAmended ==
    AliceChunked =>
        /\ OneChunk(AliceContent)
        /\ job.chunks[1][1].metadata.type = "csv"
        /\ "row" \notin DOMAIN job.chunks[1][1].metadata
        /\ job.documents[1].metadata.row = 1

\* C18 witness: the one chunk of the file is stored
C18_Witness ==
    /\ AliceChunked
    /\ job.stage = "stored"
    /\ job.ret = 1

\* C19: a stored record's metadata has the keys chunk_size, filename, type
\* and source and no other: chunk_size is the length of the record's text,
\* filename the basename of the file, type the type its parser wrote, source
\* the path handed to index_file; page or row of the unit is not among them.
C19_MetadataRebuilt ==
    job.stage = "stored" =>
        \A id \in DOMAIN job.store :
            LET meta == job.store[id].metadata
            IN  /\ DOMAIN meta = {"chunk_size", "filename", "type", "source"}
                /\ meta.chunk_size = Len(job.store[id].document)
                /\ meta.filename = basename(job.file_path)
                /\ \E u \in 1..Len(job.documents) :
                      meta.type = job.documents[u].metadata.type
                /\ meta.source = job.file_path

\* C19 witness: the row of a CSV file, which carries row metadata as a
\* parsed unit, is stored
C19_Witness ==
    /\ job.stage = "stored"
    /\ job.raw = CsvTwo
    /\ \A u \in 1..Len(job.documents) : "row" \in DOMAIN job.documents[u].metadata
    /\ Cardinality(DOMAIN job.store) = 2

\* contents that are empty or whitespace-only
BlankTexts == {<<>>, <<" ">>, <<"\n">>, <<" ", "\n", "\t">>}

\* the file the last operation ran on parses, and every unit of it is empty
AllUnitsEmpty ==
    /\ last.op \in IndexOps
    /\ last.acted
    /\ last.file.exists
    /\ last.file.parses
    /\ \A u \in 1..Len(last.file.units) : last.file.units[u] = <<>>

\* C20: an empty or whitespace-only content yields no chunk; index_file on a
\* file all of whose units are empty answers 0 and adds nothing, so after a
\* modify handler on such a file the store has no record of its path.
C20_EmptyFile ==
    /\ \A t \in BlankTexts :
          chunk_texts(t, DefaultChunkSize, DefaultChunkOverlap) = <<>>
    /\ AllUnitsEmpty =>
          /\ last.indexed = 0
          /\ DOMAIN store \subseteq DOMAIN last.before
          /\ (last.op # "on_modified" => store = last.before)
          /\ (last.op = "on_modified"
                => get_documents_by_source(store, last.path) = {})

\* C20 witness: a file of two chunks was emptied and its modify handler
\* removed both records
C20_Witness ==
    /\ AllUnitsEmpty
    /\ last.op = "on_modified"
    /\ last.file = Blank
    /\ last.removed = 2
    /\ get_documents_by_source(store, last.path) = {}

\* a search of the last tools step that found no document
ZeroHits(s) == ~ s.outcome.raised /\ s.outcome.results.documents[1] = <<>>

\* C21: a search that finds no document returns the literal sentinel "No
\* relevant documents found in the vector store." and does not raise, and a
\* search returns that sentinel only when documents[0] of the store's answer
\* is empty.
C21_SentinelOnZeroHits ==
    agent.node # "none" =>
        \A i \in 1..Len(agent.searches) :
            LET s == agent.searches[i]
            IN  /\ ZeroHits(s) => ~ s.raised /\ s.text = Sentinel
                /\ s.text = Sentinel => ZeroHits(s)

\* a search on a collection without a record has returned the sentinel
C21_Witness ==
    /\ agent.node = "agent"
    /\ agent.ranked = <<>>
    /\ \E i \in 1..Len(agent.searches) :
         ZeroHits(agent.searches[i]) /\ agent.searches[i].text = Sentinel

\* C22: handling a delete event for a file that has no record in the store
\* removes nothing, makes remove_file_from_index return 0, raises no error
\* and leaves the store unchanged.
C22_DeleteWithoutRecord ==
    (/\ last.op = "on_deleted"
     /\ last.acted
     /\ RecordsOf(last.before, last.path) = {})
    => /\ last.removed = 0
       /\ ~ last.raised
       /\ store = last.before

\* the calls of the removal and of the create path
RemoveCalls == {"get_documents_by_source", "delete_documents"}

CreateCalls == {"parse_file", "add_documents"}

\* the last operation made a call of one of the names, and it failed
FailedCall(names) ==
    \E i \in 1..Len(last.calls) :
        last.calls[i].name \in names /\ ~ last.calls[i].ok

\* the last operation made a call of the name, and it returned
ReturnedCall(name) ==
    \E i \in 1..Len(last.calls) :
        last.calls[i].name = name /\ last.calls[i].ok

\* C23: in the modify handler the lookup and the delete of the old records
\* come before the re-parse and the re-add, and the delete is best-effort:
\* when the lookup or the delete fails the handler goes on, and the create
\* path runs in full (the file is parsed and chunked, its chunks are added).
C23_DeleteBestEffort ==
    (last.op = "on_modified" /\ last.acted)
        => /\ last.calls[1].name = "get_documents_by_source"
           /\ \A i \in 1..Len(last.calls), j \in 1..Len(last.calls) :
                 (last.calls[i].name \in RemoveCalls
                    /\ last.calls[j].name \in CreateCalls) => i < j
           /\ \E j \in 1..Len(last.calls) : last.calls[j].name = "parse_file"
           /\ FailedCall(RemoveCalls)
                 => /\ last.removed = 0
                    /\ (Len(ChunksOf(last.path, last.file)) > 0
                          => \E j \in 1..Len(last.calls) :
                                last.calls[j].name = "add_documents")
                    /\ ReturnedCall("add_documents")
                          => /\ last.indexed = Len(ChunksOf(last.path, last.file))
                             /\ \A k \in 0..(last.indexed - 1) :
                                   ClaimId(last.path, k) \in DOMAIN store

\* C23 witness: the delete of two old records failed and the new content was
\* added all the same
C23_Witness ==
    /\ last.op = "on_modified"
    /\ \E i \in 1..Len(last.calls) :
          last.calls[i].name = "delete_documents" /\ ~ last.calls[i].ok
    /\ ReturnedCall("add_documents")
    /\ last.indexed > 0
    /\ Cardinality(get_documents_by_source(last.before, last.path)) = 2

\* the adds the last operation called
AddCalls == {i \in 1..Len(last.calls) : last.calls[i].name = "add_documents"}

\* what index_file answers and does when its add fails, and when it answers
\* a positive count
AddFailureAnswered ==
    /\ (last.op \in IndexOps /\ FailedCall({"add_documents"}))
          => /\ last.indexed = 0
             /\ Cardinality(AddCalls) = 1
    /\ (last.op \in IndexOps /\ last.indexed > 0)
          => /\ ReturnedCall("add_documents")
             /\ \A k \in 0..(last.indexed - 1) :
                   ClaimId(last.path, k) \in DOMAIN store

\* C24: when the add fails during index_file, index_file returns 0, the add
\* is not retried and the watcher goes on: the operation that called
\* index_file ends without an exception; index_file returns N > 0 only when
\* the add of all N chunks completed without error.
C24_AddFailure ==
    /\ AddFailureAnswered
    /\ (last.op \in IndexOps /\ FailedCall({"add_documents"})) => ~ last.raised

\* C25: a missing credential is fatal at startup: without the key of the
\* image parser main() ends while it constructs the chunker, before the
\* initial scan and before the watcher starts, so no record is added and no
\* event is ever handled.
C25_ConfigFatal ==
    ~ GEMINI_API
        => /\ phase = "down"
           /\ toScan = {}
           /\ ~ observerAlive
           /\ queue = <<>>
           /\ store = EmptyStore
           /\ last = NoOp

\* C25 witness: main() was started without the key on a folder that holds a
\* supported file
C25_Witness ==
    /\ ~ GEMINI_API
    /\ runs > 0
    /\ disk[FileA].exists
    /\ supported_file[FileA]

\* the ordinals an id may carry in the model
Ordinals == 0..9

\* the id of every file of the watched folder and every ordinal
IdTable == [p \in Entries |-> [k \in Ordinals |-> ClaimId(p, k)]]

\* the files of the watched folder never share an id
IdsDistinct ==
    \A p \in Entries, q \in Entries, i \in Ordinals, j \in Ordinals :
        <<p, i>> # <<q, j>> => IdTable[p][i] # IdTable[q][j]

\* every id is the id of its record's source and of some ordinal
IdsWellFormed ==
    /\ \A id \in DOMAIN store :
          \E k \in Ordinals : id = IdTable[store[id].metadata.source][k]
    /\ IdsDistinct

\* the ordinals under which the store holds a record of the path
OrdinalsOf(st, p) ==
    {k \in Ordinals : IdTable[p][k] \in get_documents_by_source(st, p)}

\* C26 as stated: every id is generate_doc_id(metadata.source, i) for some
\* ordinal i, distinct (path, ordinal) pairs have distinct ids, and after a
\* handler that indexed a path with N chunks without store failure the
\* ordinals present for the path are exactly 0..N-1.
C26_OrdinalsContiguous ==
    /\ IdsWellFormed
    /\ (last.op \in {"on_created", "on_modified"} /\ last.acted
          /\ ~ last.failed /\ last.indexed > 0)
          => OrdinalsOf(store, last.path) = 0..(last.indexed - 1)

\* C26 amended: the same, the ordinals being exactly 0..N-1 after a modify
\* handler, and after a create handler when the store held no record of the
\* path beyond the ordinals 0..N-1 before.
C26_OrdinalsContiguousAmended ==
    /\ IdsWellFormed
    /\ (last.op \in {"on_created", "on_modified"} /\ last.acted
          /\ ~ last.failed /\ last.indexed > 0
          /\ (last.op = "on_created"
                => OrdinalsOf(last.before, last.path)
                      \subseteq 0..(last.indexed - 1)))
          => OrdinalsOf(store, last.path) = 0..(last.indexed - 1)

\* C26 witness: a modify handler without store failure replaced the
\* ordinals 0 and 1 of a path by the ordinal 0 alone
C26_Witness ==
    /\ last.op = "on_modified"
    /\ ~ last.failed
    /\ OrdinalsOf(last.before, last.path) = {0, 1}
    /\ last.indexed = 1
    /\ OrdinalsOf(store, last.path) = {0}

\* a step in which the delivery thread takes the event at the head of the
\* queue and runs its handler
HandlerStep ==
    /\ phase = "watching"
    /\ phase' = "watching"
    /\ queue # <<>>
    /\ queue' = Tail(queue)

\* C27: a directory event, an event on an unsupported or hidden file and a
\* move event are not acted on: their handler adds nothing and deletes
\* nothing, so after a rename the records still carry the old path and the
\* new path has gained no record.
C27_IgnoredEvents ==
    [][ (/\ HandlerStep
         /\ \/ Head(queue).is_directory
            \/ Head(queue).event_type = "moved"
            \/ ~ is_supported_file(Head(queue).src_path))
        => /\ store' = store
           /\ ~ last'.acted
           /\ ~ last'.raised ]_vars

\* C27 witness: a.txt, indexed with two chunks, was renamed to B.TXT and the
\* move was handled: the records name a.txt and none names B.TXT
C27_Witness ==
    /\ last.op = "on_moved"
    /\ last.path = FileA
    /\ last.dest = FileB
    /\ disk[FileB].exists
    /\ Cardinality(get_documents_by_source(store, FileA)) = 2
    /\ get_documents_by_source(store, FileB) = {}

\* C28: a modify is not rolled back: when the lookup and the delete of the
\* old records succeeded, the path ends with exactly the chunks of the new
\* content or with no record at all, and with no record when the re-index
\* failed (file gone, parser raised, add failed); the old chunk set is
\* never left in place.
C28_NoRollback ==
    (last.op = "on_modified" /\ last.acted /\ ~ FailedCall(RemoveCalls))
        => /\ \/ RecordsOf(store, last.path)
                    = ExpectedRecords(last.path, last.file)
              \/ RecordsOf(store, last.path) = {}
           /\ (\/ ~ last.file.exists
               \/ ~ last.file.parses
               \/ FailedCall({"add_documents"}))
                 => get_documents_by_source(store, last.path) = {}

\* C28 witness: the two old records were deleted, the add of the new
\* content failed, and the path is left without a record
C28_Witness ==
    /\ last.op = "on_modified"
    /\ last.removed = 2
    /\ ReturnedCall("delete_documents")
    /\ FailedCall({"add_documents"})
    /\ Len(ChunksOf(last.path, last.file)) > 0
    /\ get_documents_by_source(store, last.path) = {}

\* the last message of a run
LastMessage(run) == run.messages[Len(run.messages)]

\* C29: the run starts at the agent node; every execution of the tools node
\* is followed by the agent node; the run ends from the agent node only, and
\* the agent node is followed by the end exactly when the last message
\* carries no tool call, by the tools node exactly when it carries one.
C29_AgentLoop ==
    /\ agent.node = "agent"
    /\ [][ /\ (agent.node = "tools" /\ agent' # agent) => agent'.node = "agent"
           /\ agent'.node = END
                 => /\ agent.node \in {"agent", END}
                    /\ LastMessage(agent').tool_calls = <<>>
           /\ (agent'.node = "tools" /\ agent.node # "tools")
                 => /\ agent.node = "agent"
                    /\ LastMessage(agent').type = "ai"
                    /\ LastMessage(agent').tool_calls # <<>>
           /\ (agent.node = "agent" /\ agent' # agent /\ agent'.node # "raised")
                 => /\ agent'.node \in {"tools", END}
                    /\ agent'.node = END
                          <=> LastMessage(agent').tool_calls = <<>> ]_vars

\* C29 witness: a run that searched twice in one tools step, went back to
\* the agent and ended on an answer without tool calls
C29_Witness ==
    /\ agent.node = END
    /\ Len(agent.searches) = 2
    /\ \E i \in 1..Len(agent.messages) : agent.messages[i].type = "tool"
    /\ LastMessage(agent).type = "ai"
    /\ LastMessage(agent).tool_calls = <<>>

StartsWith(s, prefix) ==
    Len(s) >= Len(prefix) /\ SubSeq(s, 1, Len(prefix)) = prefix

\* the positions at which sub occurs in s
Occurs(s, sub) ==
    {i \in 1..(Len(s) - Len(sub) + 1) : SubSeq(s, i, i + Len(sub) - 1) = sub}

\* the start of the block of the k-th document
BlockStart(k, document) ==
    ResultHeader(k) \o ContentLabel \o document \o <<"\n">>

\* the text lists the documents in their order, one block each, numbered
\* from 1
ListsInOrder(text, documents) ==
    /\ \A k \in 1..Len(documents) :
          Cardinality(Occurs(text, BlockStart(k, documents[k]))) = 1
    /\ \A k \in 1..(Len(documents) - 1) :
          \A i \in Occurs(text, BlockStart(k, documents[k])),
             j \in Occurs(text, BlockStart(k + 1, documents[k + 1])) : i < j
    /\ Cardinality(Occurs(text, ContentLabel)) = Len(documents)
    /\ Occurs(text, BlockStart(1, documents[1])) = {1}

\* C30: the search never raises to its caller: a failure of the retriever
\* or of the query comes back as a text that starts with "Error searching
\* vector store: ", and on success the documents are listed in the order the
\* store returned them, one block per document, numbered from 1.
C30_SearchNeverRaises ==
    agent.node # "none" =>
        \A i \in 1..Len(agent.searches) :
            LET s == agent.searches[i]
            IN  /\ ~ s.raised
                /\ s.outcome.raised
                      => /\ StartsWith(s.text, ErrorPrefix)
                         /\ s.text = ErrorPrefix \o s.outcome.message
                /\ (~ s.outcome.raised /\ ~ ZeroHits(s))
                      => ListsInOrder(s.text, s.outcome.results.documents[1])

\* C30 witness: a first search listed two documents, a second one failed
\* and its error text went back to the agent as a tool message
C30_Witness ==
    /\ agent.node = "agent"
    /\ \E i \in 1..Len(agent.messages) :
          /\ agent.messages[i].type = "tool"
          /\ Occurs(agent.messages[i].content, ResultHeader(2)) # {}
    /\ \E i \in 1..Len(agent.searches) : agent.searches[i].outcome.raised
    /\ LastMessage(agent).type = "tool"
    /\ StartsWith(LastMessage(agent).content, ErrorPrefix)

====
